---- MODULE Spec2Model ----
(***************************************************************************)
(* BinaryClassifierComparator                                              *)
(* (src/exerevnetes/classification/_clf_comparator.py) as a state machine. *)
(*                                                                         *)
(* The registry is the caller's dictionary (the constructor keeps the      *)
(* reference, line 47), so it outlives a Comparator: a later construction  *)
(* over the same dictionary starts from what the earlier one left in it.   *)
(* cross_val_predict, the metric functions and time.time() are external:   *)
(* their results are inputs of the actions. pandas is modelled by what     *)
(* DataFrame(...).T, df[col] = dict, df[col][label] = v, len(df) and       *)
(* sort_values do (pandas 1.5 and later).                                  *)
(***************************************************************************)
EXTENDS Integers, Sequences, FiniteSets, TLC

\* ------------------------------------------------------------------ bounds
MaxConstructs == 2
MaxRuns == 2
MaxTemplateSteps == 1
MaxLen == 3

\* --------------------------------------------------------------- constants
DefaultCv == 5

\* ---------------------------------------------------------- ordered dicts
\* A Python dict: a sequence of [k, v] entries in insertion order.
Keys(d) == [i \in 1..Len(d) |-> d[i].k]

Has(d, key) == \E i \in 1..Len(d) : d[i].k = key

Get(d, key) == d[CHOOSE i \in 1..Len(d) : d[i].k = key].v

\* d[key] = val: an existing key keeps its position, a new key goes last.
Put(d, key, val) ==
    IF Has(d, key)
    THEN [i \in 1..Len(d) |-> IF d[i].k = key THEN [k |-> key, v |-> val] ELSE d[i]]
    ELSE Append(d, [k |-> key, v |-> val])

Range(s) == {s[i] : i \in 1..Len(s)}

\* The entries latest first in the place of insertion order.
ItemsReversed(d) == [i \in 1..Len(d) |-> d[Len(d) + 1 - i]]

\* d.items(): the entries in insertion order.
Items(d) == d

\* -------------------------------------------------------------- estimators
\* Every object is a record of the same shape. A candidate estimator is
\* known by its name; a preprocessing step by its position pos in the
\* template and by oid, which tells apart the copies clone() makes of it
\* (0 is the caller's own object); a pipeline by its steps, a sequence of
\* [name, obj] pairs.
NoSteps == <<>>

Estimator(name) == [kind |-> "est", id |-> name, pos |-> 0, oid |-> 0, steps |-> NoSteps]

Step(i, o) == [kind |-> "step", id |-> "prep", pos |-> i, oid |-> o, steps |-> NoSteps]

Pipeline(steps) == [kind |-> "pipe", id |-> "pipeline", pos |-> 0, oid |-> 0, steps |-> steps]

None == [kind |-> "none", id |-> "None", pos |-> 0, oid |-> 0, steps |-> NoSteps]

\* bool(pipeline): None is false, a pipeline with steps is true.
Truthy(p) == p.kind # "none" /\ Len(p.steps) > 0

\* The templates a caller passes: None, or a pipeline of MaxTemplateSteps
\* preprocessing steps.
Templates ==
    {None,
     Pipeline([i \in 1..MaxTemplateSteps |-> [name |-> "prep", obj |-> Step(i, 0)]])}

\* sklearn.base.clone(pipeline): a new pipeline whose steps are new
\* estimators with the template steps' parameters; base is the last object
\* id in use.
CloneOf(p, base) ==
    Pipeline([i \in 1..Len(p.steps) |->
                [name |-> p.steps[i].name,
                 obj |-> [p.steps[i].obj EXCEPT !.oid = base + i]]])

\* --------------------------------------------------------------- registries
CandNames == {"a", "b"}

Registry(names) == [i \in 1..Len(names) |-> [k |-> names[i], v |-> Estimator(names[i])]]

\* The registries a caller passes: none, one and two candidates, inserted
\* in an order that is not the alphabetical one.
Registries == {Registry(<<>>), Registry(<<"b">>), Registry(<<"b", "a">>)}

\* The caller's dictionary is object 1 of the dictionary heap.
CallerDict == 1

NoDict == 0

\* ------------------------------------------------------------- the dataset
\* The label vectors of the Comparator's life cycle: of one, two and three
\* classes.
LabelVectors == {<<1, 1>>, <<0, 1>>, <<0, 1, 2>>}

\* Every label vector of at most MaxLen rows over three labels.
AllLabelVectors == UNION {[1..n -> 0..2] : n \in 0..MaxLen}

\* len(y) in the place of len(Counter(y)).
NClassesAsLength(yv) == Len(yv)

\* len(Counter(y))
NClasses(yv) == Cardinality(Range(yv))

\* What cross_val_predict can return: one prediction per row, each one of
\* the labels of y.
PredsFor(yv) == [1..Len(yv) -> Range(yv)]

\* time.time() - clf_time, in ticks: the code stores it and never reads it.
CvTimes == {1}

\* --------------------------------------------------------- metric functions
Matches(yv, preds) == Cardinality({i \in 1..Len(yv) : yv[i] = preds[i]})

\* A metric function: its __name__ and what it computes (in percent where
\* the function returns a fraction).
accuracy_score == [name |-> "accuracy_score", fn |-> "fraction_correct"]
zero_one_loss == [name |-> "zero_one_loss", fn |-> "fraction_wrong"]
count_correct == [name |-> "accuracy_score", fn |-> "count_correct"]
timing_named == [name |-> "cv_time", fn |-> "count_wrong"]

Apply(m, yv, preds) ==
    CASE m.fn = "fraction_correct" -> (100 * Matches(yv, preds)) \div Len(yv)
      [] m.fn = "fraction_wrong" -> (100 * (Len(yv) - Matches(yv, preds))) \div Len(yv)
      [] m.fn = "count_correct" -> Matches(yv, preds)
      [] m.fn = "count_wrong" -> Len(yv) - Matches(yv, preds)

\* The metric lists a caller passes: of distinct names, of two functions of
\* one name, and with a function named like the timing column.
MetricLists == {<<accuracy_score, zero_one_loss>>, <<accuracy_score, count_correct>>,
                <<timing_named>>}

\* ------------------------------------------------------------------ values
\* A float of the table: a number, or NaN.
Num(x) == [nan |-> FALSE, x |-> x]

NaN == [nan |-> TRUE, x |-> 0]

\* ------------------------------------------------------------ the results
\* self._metrics is a dict of dicts (from construction until the first
\* __format_metrics) or a DataFrame (from then on).
NoCells == <<>>

DictOf(d) == [kind |-> "dict", d |-> d, index |-> <<>>, columns |-> <<>>, cell |-> NoCells]

Frame(index, columns, cell) ==
    [kind |-> "frame", d |-> <<>>, index |-> index, columns |-> columns, cell |-> cell]

EmptyDict == DictOf(<<>>)

\* A test that the results exist in the place of one that they are not empty.
LenMetricsNeverZero(m) == 1

\* len(self._metrics): the keys of a dict, the rows of a DataFrame.
LenMetrics(m) == IF m.kind = "dict" THEN Len(m.d) ELSE Len(m.index)

RECURSIVE AppendNew(_, _)
AppendNew(acc, ks) ==
    IF ks = <<>> THEN acc
    ELSE AppendNew(IF Head(ks) \in Range(acc) THEN acc ELSE Append(acc, Head(ks)),
                   Tail(ks))

\* The union of the inner dicts' keys, in order of first appearance.
RECURSIVE UnionIndex(_, _)
UnionIndex(d, acc) ==
    IF d = <<>> THEN acc ELSE UnionIndex(Tail(d), AppendNew(acc, Keys(Head(d).v)))

\* pd.DataFrame(dict of dicts): a column per outer key, a row per inner
\* key, NaN where a column's dict lacks the row's key.
FromDict(d) ==
    LET cols == Keys(d)
        idx == UnionIndex(d, <<>>)
    IN Frame(idx, cols,
             [rc \in Range(idx) \X Range(cols) |->
                 IF Has(Get(d, rc[2]), rc[1]) THEN Get(Get(d, rc[2]), rc[1]) ELSE NaN])

\* DataFrame.T
Transpose(f) ==
    Frame(f.columns, f.index,
          [rc \in Range(f.columns) \X Range(f.index) |-> f.cell[<<rc[2], rc[1]>>]])

\* pd.DataFrame(self._metrics) without the transposition.
FormatMetricsNoTranspose(m) == IF m.kind = "dict" THEN FromDict(m.d) ELSE m

\* __format_metrics: pd.DataFrame(self._metrics).T; pd.DataFrame of a
\* DataFrame is that DataFrame.
FormatMetrics(m) == IF m.kind = "dict" THEN Transpose(FromDict(m.d)) ELSE Transpose(m)

\* self._metrics[clf_name] = {"cv_time": cv_time}. On a dict it binds the
\* key to a new inner dict. On a DataFrame it sets the column clf_name to
\* the dict as a Series aligned on the frame's index: the value at the row
\* labelled "cv_time", NaN at every other row (a frame without rows takes
\* the dict's keys as its rows first).
SetTiming(m, clf_name, cv_time) ==
    IF m.kind = "dict"
    THEN DictOf(Put(m.d, clf_name, <<[k |-> "cv_time", v |-> Num(cv_time)]>>))
    ELSE LET idx == IF m.index = <<>> THEN <<"cv_time">> ELSE m.index
             cols == IF clf_name \in Range(m.columns) THEN m.columns
                     ELSE Append(m.columns, clf_name)
         IN Frame(idx, cols,
                  [rc \in Range(idx) \X Range(cols) |->
                      IF rc[2] = clf_name
                      THEN (IF rc[1] = "cv_time" THEN Num(cv_time) ELSE NaN)
                      ELSE IF rc[1] \in Range(m.index) THEN m.cell[rc] ELSE NaN])

\* self._metrics[clf_name][name] = value. On a dict it binds name in the
\* inner dict. On a DataFrame self._metrics[clf_name] is the column as a
\* Series: a label that is no row of it enlarges that Series only and the
\* frame keeps its cells; a label that is a row is written in place, which
\* reaches the frame when the Series is a view of it (through = TRUE) and
\* does not under copy-on-write (through = FALSE).
SetScore(m, clf_name, name, value, through) ==
    IF m.kind = "dict"
    THEN DictOf(Put(m.d, clf_name, Put(Get(m.d, clf_name), name, Num(value))))
    ELSE IF name \in Range(m.index) /\ through
         THEN [m EXCEPT !.cell[<<name, clf_name>>] = Num(value)]
         ELSE m

\* __calculate_scores for the metric functions 1..upto of the list.
RECURSIVE CalculateScores(_, _, _, _, _, _, _)
CalculateScores(m, funcs, upto, clf_name, yv, preds, through) ==
    IF upto = 0 THEN m
    ELSE SetScore(CalculateScores(m, funcs, upto - 1, clf_name, yv, preds, through),
                  clf_name, funcs[upto].name, Apply(funcs[upto], yv, preds), through)

\* DataFrame.sort_values(by=column).index[-1]. Rows whose value is NaN go
\* last, in index order, so the last of them ends the order. Without NaN the
\* order is that of an ascending argsort of kind "quicksort" (the default),
\* which is not stable: any row holding the maximum can be the last one.
LastSorted(f, column) ==
    LET nans == {i \in 1..Len(f.index) : f.cell[<<f.index[i], column>>].nan}
        top == {i \in 1..Len(f.index) :
                   \A j \in 1..Len(f.index) :
                       f.cell[<<f.index[j], column>>].x <= f.cell[<<f.index[i], column>>].x}
    IN IF nans # {}
       THEN {f.index[CHOOSE i \in nans : \A j \in nans : j <= i]}
       ELSE {f.index[i] : i \in top}

\* ------------------------------------------------------------------- state
VARIABLES
    dicts,          \* the dictionary objects: dicts[CallerDict] is the caller's registry
    classifiers,    \* self.classifiers: a reference into dicts (NoDict: no Comparator yet)
    y,              \* self.y
    cv,             \* self.cv
    metric_funcs,   \* self.metric_funcs
    pipeline,       \* self.pipeline
    metrics,        \* self._metrics
    pc,             \* 0: no run() in progress; i: run() is about to process the
                    \* i-th registry entry; past the last entry: about to format
    cv_log,         \* the candidates cross_val_predict was called for in this run()
    run_log,        \* what it returned in this run(), by candidate: the
                    \* predictions, and the time it took
    before,         \* self._metrics as the run() in progress, or the one that
                    \* raised, found it
    ret,            \* how the last call ended: its result or the exception raised
    next_oid,       \* the objects clone() has made so far
    nconstructs,    \* Comparators constructed so far
    nruns,          \* run() calls on the current Comparator so far
    ncompleted      \* those of them that returned

vars == <<dicts, classifiers, y, cv, metric_funcs, pipeline, metrics, pc, cv_log,
          run_log, before, ret, next_oid, nconstructs, nruns, ncompleted>>

config == <<y, cv, metric_funcs, pipeline>>

\* A call's outcome: the operation and its argument (arg: a name; yv: the
\* label vector given to the constructor), exc: "ok" or the exception, and
\* what was returned (obj, table), the class count an error message cites
\* (n), and whether a warning was issued.
Result(op, arg, yv, exc, obj, table, n, warned) ==
    [op |-> op, arg |-> arg, yv |-> yv, exc |-> exc, obj |-> obj, table |-> table,
     n |-> n, warned |-> warned]

Returns(op, arg) == Result(op, arg, <<>>, "ok", None, EmptyDict, 0, FALSE)

Raises(op, arg, exc) == Result(op, arg, <<>>, exc, None, EmptyDict, 0, FALSE)

Init ==
    /\ dicts \in {<<r>> : r \in Registries}
    /\ classifiers = NoDict
    /\ y = <<>>
    /\ cv = 0
    /\ metric_funcs = <<>>
    /\ pipeline = None
    /\ metrics = EmptyDict
    /\ pc = 0
    /\ cv_log = <<>>
    /\ run_log = <<>>
    /\ before = EmptyDict
    /\ ret = Returns("none", "")
    /\ next_oid = 0
    /\ nconstructs = 0
    /\ nruns = 0
    /\ ncompleted = 0

Exists == classifiers # NoDict

Idle == Exists /\ pc = 0

\* The registry the Comparator reads.
Reg == dicts[classifiers]

\* ------------------------------------------------------------ construction
\* __build_pipelines: each entry, in order, becomes a clone of the template
\* with ("model", entry) appended; base is the last object id in use.
BuildPipelines(reg, template, base) ==
    [i \in 1..Len(reg) |->
        [k |-> reg[i].k,
         v |-> LET tmp_pipe == CloneOf(template, base + (i - 1) * Len(template.steps))
               IN Pipeline(Append(tmp_pipe.steps, [name |-> "model", obj |-> reg[i].v]))]]

\* A constructor that builds the pipelines in a copy of the caller's
\* dictionary (object 2 of the heap) and leaves the caller's as it is.
ConstructOnCopy(yv, funcs, template) ==
    /\ pc = 0
    /\ nconstructs < MaxConstructs
    /\ IF NClasses(yv) # 2
       THEN /\ ret' = Result("init", "", yv, "ValueError", None, EmptyDict, NClasses(yv),
                            FALSE)
            /\ UNCHANGED <<dicts, classifiers, config, metrics, next_oid, nconstructs,
                           nruns, ncompleted, cv_log, run_log, before>>
       ELSE /\ y' = yv
            /\ cv' = DefaultCv
            /\ metric_funcs' = funcs
            /\ pipeline' = template
            /\ metrics' = EmptyDict
            /\ IF Truthy(template)
               THEN /\ dicts' = <<dicts[CallerDict],
                                  BuildPipelines(dicts[CallerDict], template, next_oid)>>
                    /\ classifiers' = CallerDict + 1
                    /\ next_oid' = next_oid + Len(dicts[CallerDict]) * Len(template.steps)
               ELSE /\ dicts' = <<dicts[CallerDict]>>
                    /\ classifiers' = CallerDict
                    /\ UNCHANGED next_oid
            /\ ret' = Result("init", "", yv, "ok", None, EmptyDict, 0, FALSE)
            /\ nconstructs' = nconstructs + 1
            /\ nruns' = 0
            /\ ncompleted' = 0
            /\ cv_log' = <<>>
            /\ run_log' = <<>>
            /\ before' = EmptyDict
    /\ UNCHANGED pc

\* BinaryClassifierComparator(X, yv, classifiers=<the caller's dict>, cv=5,
\* metric_funcs=funcs, pipeline=template)
Construct(yv, funcs, template) ==
    /\ pc = 0
    /\ nconstructs < MaxConstructs
    /\ IF NClasses(yv) # 2
       THEN /\ ret' = Result("init", "", yv, "ValueError", None, EmptyDict, NClasses(yv),
                            FALSE)
            /\ UNCHANGED <<dicts, classifiers, config, metrics, next_oid, nconstructs,
                           nruns, ncompleted, cv_log, run_log, before>>
       ELSE /\ y' = yv
            /\ classifiers' = CallerDict
            /\ cv' = DefaultCv
            /\ metric_funcs' = funcs
            /\ pipeline' = template
            /\ metrics' = EmptyDict
            /\ IF Truthy(template)
               THEN /\ dicts' = [dicts EXCEPT ![CallerDict] =
                                    BuildPipelines(dicts[CallerDict], template, next_oid)]
                    /\ next_oid' = next_oid + Len(dicts[CallerDict]) * Len(template.steps)
               ELSE UNCHANGED <<dicts, next_oid>>
            /\ ret' = Result("init", "", yv, "ok", None, EmptyDict, 0, FALSE)
            /\ nconstructs' = nconstructs + 1
            /\ nruns' = 0
            /\ ncompleted' = 0
            /\ cv_log' = <<>>
            /\ run_log' = <<>>
            /\ before' = EmptyDict
    /\ UNCHANGED pc

\* --------------------------------------------------------------------- run
\* Whether the in-place write of line 74 reaches the table is open only when
\* the table is a DataFrame with a metric name among its row labels.
Throughs ==
    IF metrics.kind = "frame"
       /\ \E i \in 1..Len(metric_funcs) : metric_funcs[i].name \in Range(metrics.index)
    THEN BOOLEAN ELSE {TRUE}

\* Lines 56-57: run() starts.
RunBegin ==
    /\ Idle
    /\ nruns < MaxRuns
    /\ pc' = 1
    /\ cv_log' = <<>>
    /\ run_log' = <<>>
    /\ before' = metrics
    /\ ret' = Raises("run", "", "running")
    /\ nruns' = nruns + 1
    /\ UNCHANGED <<dicts, classifiers, config, metrics, next_oid, nconstructs, ncompleted>>

InLoop == Exists /\ pc \in 1..Len(Reg)

\* Lines 58-65 for one candidate: cross_val_predict returns preds after
\* cv_time, and every metric function returns.
RunCandidate(preds, cv_time, through) ==
    /\ InLoop
    /\ LET clf_name == Items(Reg)[pc].k
       IN /\ metrics' = CalculateScores(SetTiming(metrics, clf_name, cv_time),
                                        metric_funcs, Len(metric_funcs), clf_name, y,
                                        preds, through)
          /\ cv_log' = Append(cv_log, clf_name)
          /\ run_log' = Put(run_log, clf_name, [preds |-> preds, cv_time |-> cv_time])
    /\ pc' = pc + 1
    /\ UNCHANGED <<dicts, classifiers, config, before, ret, next_oid, nconstructs, nruns,
                   ncompleted>>

\* Line 61 raises and the loop goes on to the next candidate, as under a
\* try/except around the call.
RunCvRaisesSkipping ==
    /\ InLoop
    /\ cv_log' = Append(cv_log, Items(Reg)[pc].k)
    /\ pc' = pc + 1
    /\ ret' = Raises("run", Items(Reg)[pc].k, "EstimatorError")
    /\ UNCHANGED <<dicts, classifiers, config, metrics, run_log, before, next_oid,
                   nconstructs, nruns, ncompleted>>

\* Line 61 raises: the exception leaves run().
RunCvRaises ==
    /\ InLoop
    /\ cv_log' = Append(cv_log, Items(Reg)[pc].k)
    /\ pc' = 0
    /\ ret' = Raises("run", Items(Reg)[pc].k, "EstimatorError")
    /\ UNCHANGED <<dicts, classifiers, config, metrics, run_log, before, next_oid,
                   nconstructs, nruns, ncompleted>>

\* Line 74 raises in the failing-th metric function: the timing and the
\* scores of the functions before it are already stored.
RunMetricRaises(preds, cv_time, through, failing) ==
    /\ InLoop
    /\ LET clf_name == Items(Reg)[pc].k
       IN /\ metrics' = CalculateScores(SetTiming(metrics, clf_name, cv_time),
                                        metric_funcs, failing - 1, clf_name, y, preds,
                                        through)
          /\ cv_log' = Append(cv_log, clf_name)
          /\ run_log' = Put(run_log, clf_name, [preds |-> preds, cv_time |-> cv_time])
          /\ ret' = Raises("run", clf_name, "MetricError")
    /\ pc' = 0
    /\ UNCHANGED <<dicts, classifiers, config, before, next_oid, nconstructs, nruns,
                   ncompleted>>

\* Lines 68-70: the loop is over, __format_metrics.
RunFinish ==
    /\ Exists
    /\ pc = Len(Reg) + 1
    /\ metrics' = FormatMetrics(metrics)
    /\ pc' = 0
    /\ ret' = Returns("run", "")
    /\ ncompleted' = ncompleted + 1
    /\ before' = EmptyDict
    /\ UNCHANGED <<dicts, classifiers, config, cv_log, run_log, next_oid, nconstructs,
                   nruns>>

\* ----------------------------------------------------------------- queries
\* get_metrics() handing the results over and starting afresh.
GetMetricsConsuming ==
    /\ Idle
    /\ ret' = IF LenMetrics(metrics) = 0
              THEN Raises("get_metrics", "", "AssertionError")
              ELSE Result("get_metrics", "", <<>>, "ok", None, metrics, 0, FALSE)
    /\ metrics' = EmptyDict
    /\ UNCHANGED <<dicts, classifiers, config, pc, cv_log, run_log, before,
                   next_oid, nconstructs, nruns, ncompleted>>

GetMetrics ==
    /\ Idle
    /\ ret' = IF LenMetrics(metrics) = 0
              THEN Raises("get_metrics", "", "AssertionError")
              ELSE Result("get_metrics", "", <<>>, "ok", None, metrics, 0, FALSE)
    /\ UNCHANGED <<dicts, classifiers, config, metrics, pc, cv_log, run_log, before,
                   next_oid, nconstructs, nruns, ncompleted>>

\* get_pipeline() raising, in the place of warning, when there is no template.
GetPipelineStrict ==
    /\ Idle
    /\ ret' = IF Truthy(pipeline)
              THEN Result("get_pipeline", "", <<>>, "ok", pipeline, EmptyDict, 0, FALSE)
              ELSE Raises("get_pipeline", "", "ValueError")
    /\ UNCHANGED <<dicts, classifiers, config, metrics, pc, cv_log, run_log, before,
                   next_oid, nconstructs, nruns, ncompleted>>

GetPipeline ==
    /\ Idle
    /\ ret' = Result("get_pipeline", "", <<>>, "ok", pipeline, EmptyDict, 0,
                     ~Truthy(pipeline))
    /\ UNCHANGED <<dicts, classifiers, config, metrics, pc, cv_log, run_log, before,
                   next_oid, nconstructs, nruns, ncompleted>>

\* The column names a caller asks best_clf for.
QueryNames == {"accuracy_score", "a"}

\* best_clf(metric) once the assertion passed, the winner being the label
\* sort_values(by=metric).index[-1].
BestOf(metric, winner) ==
    IF ~Has(Reg, winner) THEN Raises("best_clf", metric, "KeyError")
    ELSE IF ~Truthy(pipeline)
    THEN Result("best_clf", metric, <<>>, "ok", Get(Reg, winner), EmptyDict, 0, FALSE)
    ELSE IF Get(Reg, winner).kind # "pipe"
    THEN Raises("best_clf", metric, "AttributeError")
    ELSE LET steps == Get(Reg, winner).steps
         IN Result("best_clf", metric, <<>>, "ok", steps[Len(steps)].obj, EmptyDict, 0,
                   FALSE)

BestClf(metric) ==
    /\ Idle
    /\ IF LenMetrics(metrics) = 0
       THEN ret' = Raises("best_clf", metric, "AssertionError")
       ELSE IF metrics.kind = "dict"
       THEN ret' = Raises("best_clf", metric, "AttributeError")
       ELSE IF metric \notin Range(metrics.columns)
       THEN ret' = Raises("best_clf", metric, "KeyError")
       ELSE \E winner \in LastSorted(metrics, metric) : ret' = BestOf(metric, winner)
    /\ UNCHANGED <<dicts, classifiers, config, metrics, pc, cv_log, run_log, before,
                   next_oid, nconstructs, nruns, ncompleted>>

\* ------------------------------------------------------------ specification
Next ==
    \/ \E yv \in LabelVectors, funcs \in MetricLists, template \in Templates :
           Construct(yv, funcs, template)
    \/ RunBegin
    \/ \E preds \in PredsFor(y), cv_time \in CvTimes, through \in Throughs :
           RunCandidate(preds, cv_time, through)
    \/ RunCvRaises
    \/ \E preds \in PredsFor(y), cv_time \in CvTimes, through \in Throughs,
          failing \in 1..Len(metric_funcs) :
           RunMetricRaises(preds, cv_time, through, failing)
    \/ RunFinish
    \/ GetMetrics
    \/ GetPipeline
    \/ \E metric \in QueryNames : BestClf(metric)

Spec == Init /\ [][Next]_vars

\* Construction alone, over every label vector, with one metric list.
NextConstruct ==
    \E yv \in AllLabelVectors, template \in Templates :
        Construct(yv, <<accuracy_score, zero_one_loss>>, template)

SpecConstruct == Init /\ [][NextConstruct]_vars

\* ================================================================== claims
RunDone == ret.op = "run" /\ ret.exc = "ok"

RunAborted == ret.op = "run" /\ ret.exc \in {"EstimatorError", "MetricError"}

\* The first run() call on a Comparator has returned.
FirstRunDone == RunDone /\ nruns = 1

FuncNames == {metric_funcs[i].name : i \in 1..Len(metric_funcs)}

\* The last function of the list that has this name.
LastNamed(name) ==
    metric_funcs[CHOOSE i \in 1..Len(metric_funcs) :
                    /\ metric_funcs[i].name = name
                    /\ \A j \in 1..Len(metric_funcs) :
                           metric_funcs[j].name = name => j <= i]

\* What this run() computed for a candidate under a column name.
ScoreOf(cand, col) ==
    IF col \in FuncNames
    THEN Num(Apply(LastNamed(col), y, Get(run_log, cand).preds))
    ELSE Num(Get(run_log, cand).cv_time)

IsTable(m) == m.kind = "frame"

\* C1: once a run() call has returned, whatever ran before it, the results
\* are a table with exactly the registry's candidates as rows, in order, no
\* column but cv_time and the metric names, and in every cell the value this
\* run() computed.
C1_RerunReplacesResults ==
    RunDone =>
        /\ IsTable(metrics)
        /\ metrics.index = Keys(Reg)
        /\ Range(metrics.columns) \subseteq {"cv_time"} \cup FuncNames
        /\ \A cand \in Range(metrics.index), col \in Range(metrics.columns) :
               metrics.cell[<<cand, col>>] = ScoreOf(cand, col)

\* C2: when run() raises, the results are what they were when it was called,
\* so on a Comparator no run() of which has returned get_metrics() and
\* best_clf() still fail with the not-yet-run error.
C2_AbortedRunDiscardsPartialResults ==
    /\ RunAborted => metrics = before
    /\ (ret.op \in {"get_metrics", "best_clf"} /\ ncompleted = 0) =>
           ret.exc = "AssertionError"

\* C3, as claimed: after the first run() of a Comparator the table has one
\* row per candidate in registry order, one column per metric function plus
\* cv_time, and in each cell (candidate, function) that function's value for
\* the candidate's predictions.
C3_OneColumnPerFunction ==
    FirstRunDone =>
        /\ IsTable(metrics)
        /\ metrics.index = Keys(Reg)
        /\ Len(metrics.columns) = Len(metric_funcs) + 1
        /\ "cv_time" \in Range(metrics.columns)
        /\ \A i \in 1..Len(metric_funcs), cand \in Range(metrics.index) :
               /\ metric_funcs[i].name \in Range(metrics.columns)
               /\ metrics.cell[<<cand, metric_funcs[i].name>>]
                    = Num(Apply(metric_funcs[i], y, Get(run_log, cand).preds))

\* C3, amended: after the first run() of a Comparator the table has one row
\* per candidate in registry order; with no candidate it has no column, and
\* otherwise its columns are cv_time and the distinct names of the metric
\* functions, once each, and the cell (candidate, name) holds the value of
\* the last function of that name for the candidate's predictions (the
\* timing, under cv_time, when no function is named cv_time).
C3_OneColumnPerName ==
    FirstRunDone =>
        /\ IsTable(metrics)
        /\ metrics.index = Keys(Reg)
        /\ IF Reg = <<>>
           THEN metrics.columns = <<>>
           ELSE /\ Range(metrics.columns) = {"cv_time"} \cup FuncNames
                /\ Len(metrics.columns) = Cardinality({"cv_time"} \cup FuncNames)
        /\ \A cand \in Range(metrics.index), col \in Range(metrics.columns) :
               metrics.cell[<<cand, col>>] = ScoreOf(cand, col)

\* Two candidates scored differently by two functions of one name.
C3_Witness ==
    /\ FirstRunDone
    /\ Len(Reg) = 2
    /\ metric_funcs = <<accuracy_score, count_correct>>
    /\ metrics.index = <<"b", "a">>
    /\ metrics.cell[<<"a", "accuracy_score">>] # metrics.cell[<<"b", "accuracy_score">>]

\* The estimator best_clf hands out for a registry entry: the entry, or with
\* a template its trailing step.
HandedOut(entry) ==
    IF pipeline.kind = "none" THEN entry
    ELSE IF entry.kind = "pipe" THEN entry.steps[Len(entry.steps)].obj
    ELSE None

\* C4: on any results table, best_clf for a name that is a column of it
\* returns the estimator of a candidate holding the maximum of the column,
\* and of the candidates holding it the latest in registry order.
C4_BestIsLatestMaximum ==
    (ret.op = "best_clf" /\ IsTable(metrics) /\ ret.arg \in Range(metrics.columns)) =>
        /\ ret.exc = "ok"
        /\ \E i \in 1..Len(metrics.index) :
               LET value(j) == metrics.cell[<<metrics.index[j], ret.arg>>]
               IN /\ Has(Reg, metrics.index[i])
                  /\ ret.obj = HandedOut(Get(Reg, metrics.index[i]))
                  /\ \A j \in 1..Len(metrics.index) :
                         /\ ~value(j).nan
                         /\ value(j).x <= value(i).x
                         /\ j > i => value(j).x < value(i).x

\* C5: get_metrics() and best_clf() on a Comparator no run() was called on
\* raise the not-yet-run assertion and return nothing.
C5_QueriesBeforeRunFail ==
    (ret.op \in {"get_metrics", "best_clf"} /\ nruns = 0) =>
        /\ ret.exc = "AssertionError"
        /\ ret.obj = None
        /\ ret.table = EmptyDict

C5_Witness == ret.op = "best_clf" /\ nruns = 0 /\ ret.exc = "AssertionError"

\* C6: once a run() call has returned on a Comparator, whatever its
\* registry, get_metrics() returns the results table.
C6_RunMakesMetricsAvailable ==
    (ret.op = "get_metrics" /\ ncompleted >= 1) =>
        /\ ret.exc = "ok"
        /\ ret.table = metrics

TwoDistinct(yv) ==
    \E i, j \in 1..Len(yv) :
        /\ yv[i] # yv[j]
        /\ \A k \in 1..Len(yv) : yv[k] \in {yv[i], yv[j]}

\* C7: the constructor returns a Comparator holding the label vector exactly
\* when the vector has two distinct values; otherwise it raises ValueError
\* citing the number of distinct values, and no Comparator comes of it.
C7_ConstructionIffTwoClasses ==
    ret.op = "init" =>
        IF TwoDistinct(ret.yv)
        THEN /\ ret.exc = "ok"
             /\ Exists
             /\ y = ret.yv
        ELSE /\ ret.exc = "ValueError"
             /\ ret.n = Cardinality({ret.yv[i] : i \in 1..Len(ret.yv)})
             /\ nconstructs = 0 => ~Exists
             /\ Exists => TwoDistinct(y)

\* A vector of three rows and three classes refused after one of three rows
\* and two classes was accepted.
C7_Witness ==
    /\ ret.op = "init"
    /\ ret.exc = "ValueError"
    /\ ret.n = 3
    /\ nconstructs = 1
    /\ Len(y) = 3

\* C8: after a construction with a template, every registry entry is a
\* pipeline of the template's steps, each a copy that is neither the
\* template's object nor a step of another candidate's pipeline, followed by
\* the original candidate estimator; and the template has only its own steps.
C8_PipelinesAreIndependentCopies ==
    (ret.op = "init" /\ ret.exc = "ok" /\ pipeline.kind = "pipe") =>
        /\ pipeline \in Templates
        /\ \A i \in 1..Len(Reg) :
               LET entry == Reg[i].v
                   n == Len(pipeline.steps)
               IN /\ entry.kind = "pipe"
                  /\ Len(entry.steps) = n + 1
                  /\ entry.steps[n + 1].obj = Estimator(Reg[i].k)
                  /\ \A k \in 1..n :
                         /\ entry.steps[k].obj.kind = "step"
                         /\ entry.steps[k].obj.pos = pipeline.steps[k].obj.pos
                         /\ entry.steps[k].obj.oid # pipeline.steps[k].obj.oid
                         /\ \A j \in 1..Len(Reg), l \in 1..n :
                                <<j, l>> # <<i, k>> =>
                                    Reg[j].v.steps[l].obj.oid # entry.steps[k].obj.oid

\* C9: after a run() has returned, best_clf for a name that is no column of
\* the results table raises the lookup error, returns nothing, and leaves
\* the table and the registry as they were.
C9_UnknownMetricIsLookupError ==
    [][(/\ ret'.op = "best_clf"
        /\ ncompleted >= 1
        /\ IsTable(metrics)
        /\ ret'.arg \notin Range(metrics.columns))
       => (/\ ret'.exc = "KeyError"
           /\ ret'.obj = None
           /\ metrics' = metrics
           /\ dicts' = dicts)]_vars

\* C10: what best_clf returns is, with a template, the trailing step of a
\* candidate's pipeline and that step is the original candidate estimator,
\* not a pipeline; without a template it is a registry entry itself.
C10_BestIsOriginalEstimator ==
    (ret.op = "best_clf" /\ ret.exc = "ok") =>
        \E i \in 1..Len(Reg) :
            LET entry == Reg[i].v
            IN IF pipeline.kind = "pipe"
               THEN /\ entry.kind = "pipe"
                    /\ ret.obj = entry.steps[Len(entry.steps)].obj
                    /\ ret.obj = Estimator(Reg[i].k)
               ELSE ret.obj = entry

\* C11: get_pipeline() never raises, before a run, after a run or after an
\* aborted one: with a template it returns the template, which has only the
\* steps the caller gave it; without one it returns None and warns.
C11_GetPipelineNeverRaises ==
    ret.op = "get_pipeline" =>
        /\ ret.exc = "ok"
        /\ ret.obj = pipeline
        /\ ret.obj \in Templates
        /\ ret.obj = None => ret.warned

\* get_pipeline() warned on a Comparator whose only run() raised after it
\* had stored a candidate's results.
C11_Witness ==
    /\ ret.op = "get_pipeline"
    /\ ret.warned
    /\ ret.obj = None
    /\ nruns = 1
    /\ ncompleted = 0
    /\ LenMetrics(metrics) > 0

\* A table with one row per candidate of the registry, in order, and a value
\* in the timing column and in every metric column of every row.
CompleteTable(m) ==
    /\ IsTable(m)
    /\ m.index = Keys(Reg)
    /\ {"cv_time"} \cup FuncNames \subseteq Range(m.columns)
    /\ \A cand \in Range(m.index), col \in Range(m.columns) : ~m.cell[<<cand, col>>].nan

\* C12: in every state, those between two candidates of a run() in progress
\* and those after a run() that raised included, the results are empty or a
\* complete table that a run() which returned has left.
C12_NoPartialResultsVisible ==
    Exists =>
        \/ LenMetrics(metrics) = 0
        \/ ncompleted >= 1 /\ CompleteTable(metrics)

\* C13: when cross_val_predict raises for a candidate, the exception leaves
\* run() at once: the call is over, the candidates cross-validated in it are
\* those up to the failing one in registry order and no later one, nothing
\* is scored for the failing one, the results are left as the candidates
\* before it left them (no formatting), and the run does not count as
\* returned.
C13_CvFailureAbortsRun ==
    [][(ret' # ret /\ ret'.exc = "EstimatorError")
       => (/\ pc \in 1..Len(Reg)
           /\ ret' = Raises("run", Keys(Reg)[pc], "EstimatorError")
           /\ pc' = 0
           /\ cv_log = SubSeq(Keys(Reg), 1, pc - 1)
           /\ cv_log' = SubSeq(Keys(Reg), 1, pc)
           /\ run_log' = run_log
           /\ metrics' = metrics
           /\ ncompleted' = ncompleted)]_vars

\* cross_val_predict raised for the first of two candidates: the second was
\* never cross-validated.
C13_Witness ==
    /\ ret = Raises("run", "b", "EstimatorError")
    /\ Keys(Reg) = <<"b", "a">>
    /\ cv_log = <<"b">>
    /\ run_log = <<>>
    /\ pc = 0

\* What run() has stored for a candidate it is done with: the timing and a
\* score under every metric name (in the dict of a first run), or the
\* candidate's column (in the table an earlier run left).
Processed(cand) ==
    /\ Has(run_log, cand)
    /\ IF metrics.kind = "dict"
       THEN /\ Has(metrics.d, cand)
            /\ {"cv_time"} \cup FuncNames \subseteq Range(Keys(Get(metrics.d, cand)))
       ELSE cand \in Range(metrics.columns)

\* C14: while run() is about to take the i-th registry entry, the candidates
\* cross-validated so far in this call are exactly the i-1 entries before it,
\* in registry order and once each, and the timing and every score of each
\* of them are stored; when run() has returned they are all the entries.
C14_OneCandidateAtATimeInOrder ==
    /\ (Exists /\ pc >= 1) =>
           /\ cv_log = SubSeq(Keys(Reg), 1, pc - 1)
           /\ Keys(run_log) = cv_log
           /\ \A i \in 1..Len(cv_log) : Processed(cv_log[i])
    /\ RunDone =>
           /\ cv_log = Keys(Reg)
           /\ Keys(run_log) = cv_log

\* The first of two candidates is timed and scored, the second not begun.
C14_Witness ==
    /\ pc = 2
    /\ Keys(Reg) = <<"b", "a">>
    /\ cv_log = <<"b">>
    /\ metrics.kind = "dict"
    /\ Keys(metrics.d) = <<"b">>
    /\ Len(Get(metrics.d, "b")) = 3

\* C15: no step of run() changes the label vector, the registry (keys,
\* order, estimators), the fold count, the metric list or the template; and
\* a call of get_metrics(), get_pipeline() or best_clf(), returning or
\* raising, changes none of them and not the results either.
C15_OnlyRunChangesOnlyResults ==
    [][/\ (pc # 0 \/ pc' # 0) =>
              UNCHANGED <<dicts, classifiers, y, cv, metric_funcs, pipeline>>
       /\ ret'.op \in {"get_metrics", "get_pipeline", "best_clf"} =>
              UNCHANGED <<dicts, classifiers, y, cv, metric_funcs, pipeline, metrics, pc>>]_vars

\* get_metrics() returned the table of a run() over a registry of
\* pipelines, and the table is still held.
C15_Witness ==
    /\ ret.op = "get_metrics"
    /\ ret.exc = "ok"
    /\ ncompleted = 1
    /\ pipeline.kind = "pipe"
    /\ Len(Reg) = 2
    /\ cv = DefaultCv
    /\ ret.table = metrics
    /\ IsTable(metrics)

\* C16: a construction that succeeds leaves the Comparator reading the
\* caller's own dictionary, not a new one, with its keys and their order as
\* they were; with a template every entry of that dictionary is now a
\* pipeline of the template's length plus one whose last step, "model", is
\* the entry that was there, so no key maps to that entry any more; without
\* a template every entry is as it was.
C16_RegistryRewrittenInPlace ==
    [][nconstructs' = nconstructs + 1
       => (/\ classifiers' = CallerDict
           /\ Len(dicts') = Len(dicts)
           /\ LET old == dicts[CallerDict]
                  new == dicts'[CallerDict]
              IN /\ Keys(new) = Keys(old)
                 /\ IF pipeline'.kind = "pipe"
                    THEN \A i \in 1..Len(new) :
                             /\ new[i].v.kind = "pipe"
                             /\ Len(new[i].v.steps) = Len(pipeline'.steps) + 1
                             /\ new[i].v.steps[Len(new[i].v.steps)]
                                  = [name |-> "model", obj |-> old[i].v]
                             /\ new[i].v # old[i].v
                    ELSE new = old)]_vars

\* The caller's dictionary of two estimators holds two pipelines after one
\* construction with a template.
C16_Witness ==
    /\ ret.op = "init"
    /\ ret.exc = "ok"
    /\ nconstructs = 1
    /\ classifiers = CallerDict
    /\ pipeline.kind = "pipe"
    /\ Keys(dicts[CallerDict]) = <<"b", "a">>
    /\ \A i \in 1..2 :
           /\ dicts[CallerDict][i].v.kind = "pipe"
           /\ dicts[CallerDict][i].v.steps[MaxTemplateSteps + 1].obj
                = Estimator(dicts[CallerDict][i].k)

\* C17: when run() has returned, every candidate's row holds, under each
\* distinct name of the metric list, the value of the last function of the
\* list that has the name (of the function, not the timing, when the name
\* is cv_time); and with candidates the table's columns are cv_time and the
\* distinct names, once each.
C17_LastFunctionOfANameWins ==
    RunDone =>
        /\ IsTable(metrics)
        /\ \A i \in 1..Len(Reg), name \in FuncNames :
               /\ Reg[i].k \in Range(metrics.index)
               /\ name \in Range(metrics.columns)
               /\ metrics.cell[<<Reg[i].k, name>>]
                    = Num(Apply(LastNamed(name), y, Get(run_log, Reg[i].k).preds))
        /\ Reg # <<>> =>
               /\ Range(metrics.columns) = {"cv_time"} \cup FuncNames
               /\ Len(metrics.columns) = Cardinality({"cv_time"} \cup FuncNames)

====
